---------------------------- MODULE Spec2Model ----------------------------
(***************************************************************************)
(* A model of src/bank_account_test1.py: the class BankAccount, its        *)
(* class-level counter of accounts, the transaction dictionaries it        *)
(* allocates, and the list a caller receives from                          *)
(* get_transaction_history.                                                *)
(*                                                                         *)
(* Amounts and balances are Python floats.  They are modelled by a binary  *)
(* floating-point format of reduced size (MantBits bits of mantissa,       *)
(* exponents 0..MaxExp) with round-to-nearest-even, overflow to infinity,  *)
(* the two infinities and NaN, and the comparisons of IEEE 754 (every      *)
(* ordered comparison with NaN is false).                                  *)
(*                                                                         *)
(* Spec is the class under any sequence of calls of its methods but       *)
(* get_transaction_history; ApiSpec has that method too.                   *)
(* CallerSpec adds a caller that keeps the list get_transaction_history    *)
(* returned and changes it, or a dictionary it reaches through it.         *)
(***************************************************************************)
EXTENDS Integers, Sequences, FiniteSets

(* ------------------------------ bounds -------------------------------- *)

\* Objects allocated over a run: accounts and transaction dictionaries.
MaxObjects == 3
\* Changes a caller makes to the lists get_transaction_history gave it.
MaxMutations == 1
\* Size of the floating-point format.
MantBits == 2
MaxExp == 1

(* --------------------------- float arithmetic ------------------------- *)

Fin(n) == [kind |-> "fin", v |-> n]
PosInf == [kind |-> "inf", v |-> 1]
NegInf == [kind |-> "inf", v |-> -1]
NaN == [kind |-> "nan", v |-> 0]
Zero == Fin(0)

MaxFinite == (2^MantBits - 1) * 2^MaxExp

\* The exponent of the binade a magnitude x falls in.
Binade(x) ==
    IF \E e \in 0..MaxExp : x < 2^MantBits * 2^e
    THEN CHOOSE e \in 0..MaxExp :
            /\ x < 2^MantBits * 2^e
            /\ \A f \in 0..MaxExp : x < 2^MantBits * 2^f => e <= f
    ELSE MaxExp

\* Round a magnitude x >= 0 to the nearest representable one, ties to even.
RoundMag(x) ==
    LET ulp == 2^Binade(x)
        q == x \div ulp
        r == x % ulp
        up == (2 * r > ulp) \/ (2 * r = ulp /\ q % 2 = 1)
    IN  IF up THEN (q + 1) * ulp ELSE q * ulp

\* The float nearest to the integer n.
Round(n) ==
    LET mag == RoundMag(IF n < 0 THEN -n ELSE n)
    IN  IF mag > MaxFinite
        THEN (IF n < 0 THEN NegInf ELSE PosInf)
        ELSE Fin(IF n < 0 THEN -mag ELSE mag)

FNeg(x) == IF x.kind = "nan" THEN NaN ELSE [kind |-> x.kind, v |-> -x.v]

\* x + y
FAdd(x, y) ==
    IF x.kind = "nan" \/ y.kind = "nan" THEN NaN
    ELSE IF x.kind = "inf" /\ y.kind = "inf"
         THEN (IF x.v = y.v THEN x ELSE NaN)
    ELSE IF x.kind = "inf" THEN x
    ELSE IF y.kind = "inf" THEN y
    ELSE Round(x.v + y.v)

\* x - y
FSub(x, y) == FAdd(x, FNeg(y))

\* The place of a float other than NaN in the order of the extended reals.
Key(x) == IF x.kind = "inf" THEN x.v * (MaxFinite + 1) ELSE x.v

\* x < y and x <= y
FLt(x, y) == x.kind # "nan" /\ y.kind # "nan" /\ Key(x) < Key(y)
FLe(x, y) == x.kind # "nan" /\ y.kind # "nan" /\ Key(x) <= Key(y)

\* The floats a caller passes as an amount: negative, zero, positive,
\* infinite and not-a-number.
Amounts == {Fin(-1), Zero, Fin(1), PosInf, NaN}

\* The floats a caller passes as an initial balance.
InitialBalances == {Fin(-1), Fin(1), Fin(3)}

AccountNumbers == {1001}
Names == {"somchai"}

(* ------------------------------- state -------------------------------- *)

VARIABLES
    total_accounts,   \* BankAccount.__total_accounts
    accounts,         \* the BankAccount objects constructed, in order
    heap,             \* the transaction dictionaries allocated, in order
    clock,            \* the number of readings of datetime.now() so far
    outcome,          \* how the last call ended: "ok" or the error raised
    returned,         \* the list the caller got from get_transaction_history
    mutations,        \* the number of changes the caller made through it
    initial_balance,  \* history variable: the balance each account was given
    succeeded         \* history variable: deposits/withdrawals that returned

vars == <<total_accounts, accounts, heap, clock, outcome, returned,
          mutations, initial_balance, succeeded>>

\* No list obtained yet.
NoList == [acct |-> 0, list |-> <<>>]

Init ==
    /\ total_accounts = 0
    /\ accounts = <<>>
    /\ heap = <<>>
    /\ clock = 0
    /\ outcome = "ok"
    /\ returned = NoList
    /\ mutations = 0
    /\ initial_balance = <<>>
    /\ succeeded = <<>>

(* ----------------------------- BankAccount ---------------------------- *)

Accts == 1..Len(accounts)

\* Room for one more object.
CanAllocate == Len(accounts) + Len(heap) < MaxObjects

\* datetime.now(): the reading is named by its number.
Now == clock + 1

\* A constructor that forgets the counter.
NextTotalForgotten(n) == n

\* BankAccount.__total_accounts += 1
NextTotal(n) == n + 1

\* The object __init__ leaves behind.
NewAccount(account_number, balance, name) ==
    [account_number |-> account_number,
     balance |-> balance,
     name |-> name,
     transaction_history |-> <<>>,
     account_status |-> "active",
     created_at |-> Now]

\* BankAccount(account_number, balance, name)
Construct(account_number, balance, name) ==
    /\ CanAllocate
    /\ accounts' = Append(accounts, NewAccount(account_number, balance, name))
    /\ clock' = clock + 1
    /\ total_accounts' = NextTotal(total_accounts)
    /\ outcome' = "ok"
    /\ initial_balance' = Append(initial_balance, balance)
    /\ succeeded' = Append(succeeded, 0)
    /\ UNCHANGED <<heap, returned, mutations>>

\* deposit with the amount checked before the status.
DepositCheckAmountFirst(acc, amount) ==
    IF FLe(amount, Zero) THEN "InvalidAmount"
    ELSE IF acc.account_status # "active" THEN "AccountSuspended"
    ELSE "ok"

\* The checks deposit makes before it changes anything.  The three
\* ValueError messages of the class are named by the error they report:
\* "account suspended" (lines 48, 67), "amount must be greater than 0"
\* (lines 51, 70), "balance insufficient" (line 73).
DepositCheck(acc, amount) ==
    IF acc.account_status # "active" THEN "AccountSuspended"
    ELSE IF FLe(amount, Zero) THEN "InvalidAmount"
    ELSE "ok"

\* withdraw that lets an amount of zero through.
WithdrawCheckStrict(acc, amount) ==
    IF acc.account_status # "active" THEN "AccountSuspended"
    ELSE IF FLt(amount, Zero) THEN "InvalidAmount"
    ELSE IF FLt(acc.balance, amount) THEN "InsufficientFunds"
    ELSE "ok"

\* withdraw without the check of the funds.
WithdrawCheckNoFunds(acc, amount) ==
    IF acc.account_status # "active" THEN "AccountSuspended"
    ELSE IF FLe(amount, Zero) THEN "InvalidAmount"
    ELSE "ok"

\* withdraw with the funds checked before the amount.
WithdrawCheckFundsFirst(acc, amount) ==
    IF acc.account_status # "active" THEN "AccountSuspended"
    ELSE IF FLt(acc.balance, amount) THEN "InsufficientFunds"
    ELSE IF FLe(amount, Zero) THEN "InvalidAmount"
    ELSE "ok"

\* The checks withdraw makes before it changes anything.
WithdrawCheck(acc, amount) ==
    IF acc.account_status # "active" THEN "AccountSuspended"
    ELSE IF FLe(amount, Zero) THEN "InvalidAmount"
    ELSE IF FLt(acc.balance, amount) THEN "InsufficientFunds"
    ELSE "ok"

\* deposit that subtracts.
CreditSubtracts(acc, amount) == [acc EXCEPT !.balance = FSub(@, amount)]

\* self.__balance += amount
Credit(acc, amount) == [acc EXCEPT !.balance = FAdd(@, amount)]

\* withdraw that suspends the account it takes money from.
DebitSuspends(acc, amount) ==
    [acc EXCEPT !.balance = FSub(@, amount), !.account_status = "suspended"]

\* withdraw that leaves the balance alone.
DebitNothing(acc, amount) == acc

\* self.__balance -= amount
Debit(acc, amount) == [acc EXCEPT !.balance = FSub(@, amount)]

\* A dictionary with the balance taken before the amount was applied.
NewTransactionStale(transaction_type, amount, balance) ==
    [type |-> transaction_type,
     amount |-> amount,
     timestamp |-> Now,
     balance_after |-> IF transaction_type = "deposit"
                       THEN FSub(balance, amount)
                       ELSE FAdd(balance, amount)]

\* The dictionary __add_transaction builds.
NewTransaction(transaction_type, amount, balance) ==
    [type |-> transaction_type,
     amount |-> amount,
     timestamp |-> Now,
     balance_after |-> balance]

\* __add_transaction that builds the dictionary and drops it.
AddTransactionDropped(acc, hp, transaction_type, amount) ==
    [acc |-> acc,
     heap |-> Append(hp, NewTransaction(transaction_type, amount, acc.balance))]

\* __add_transaction that puts the newest transaction first.
AddTransactionPrepended(acc, hp, transaction_type, amount) ==
    [acc |-> [acc EXCEPT !.transaction_history = <<Len(hp) + 1>> \o @],
     heap |-> Append(hp, NewTransaction(transaction_type, amount, acc.balance))]

\* __add_transaction: allocates the dictionary and appends a reference to
\* it to the account's list.  Yields the account and the heap afterwards.
AddTransaction(acc, hp, transaction_type, amount) ==
    [acc |-> [acc EXCEPT !.transaction_history = Append(@, Len(hp) + 1)],
     heap |-> Append(hp, NewTransaction(transaction_type, amount, acc.balance))]

\* A call that raises: nothing but the outcome changes.
Raise(error) ==
    /\ outcome' = error
    /\ UNCHANGED <<total_accounts, accounts, heap, clock, returned,
                   mutations, initial_balance, succeeded>>

\* A deposit or withdrawal on a class whose transaction list is a class
\* attribute: every account sees the list of the account just changed.
ReturnShared(i, done) ==
    /\ outcome' = "ok"
    /\ clock' = clock + 1
    /\ heap' = done.heap
    /\ accounts' = [k \in Accts |->
                       IF k = i THEN done.acc
                       ELSE [accounts[k] EXCEPT !.transaction_history =
                                                    done.acc.transaction_history]]
    /\ succeeded' = [succeeded EXCEPT ![i] = @ + 1]
    /\ UNCHANGED <<total_accounts, returned, mutations, initial_balance>>

\* A deposit or withdrawal that returns, leaving account i as done.acc.
Return(i, done) ==
    /\ outcome' = "ok"
    /\ clock' = clock + 1
    /\ heap' = done.heap
    /\ accounts' = [accounts EXCEPT ![i] = done.acc]
    /\ succeeded' = [succeeded EXCEPT ![i] = @ + 1]
    /\ UNCHANGED <<total_accounts, returned, mutations, initial_balance>>

\* accounts[i].deposit(amount)
Deposit(i, amount) ==
    LET acc == accounts[i]
        check == DepositCheck(acc, amount)
    IN  IF check # "ok"
        THEN Raise(check)
        ELSE /\ CanAllocate
             /\ Return(i, AddTransaction(Credit(acc, amount), heap, "deposit", amount))

\* accounts[i].withdraw(amount)
Withdraw(i, amount) ==
    LET acc == accounts[i]
        check == WithdrawCheck(acc, amount)
    IN  IF check # "ok"
        THEN Raise(check)
        ELSE /\ CanAllocate
             /\ Return(i, AddTransaction(Debit(acc, amount), heap, "withdraw", amount))

\* What accounts[i].get_balance() returns.
get_balance(i) == accounts[i].balance

\* accounts[i].get_balance()
GetBalance(i) ==
    /\ outcome' = "ok"
    /\ UNCHANGED <<total_accounts, accounts, heap, clock, returned,
                   mutations, initial_balance, succeeded>>

\* What accounts[i].get_transaction_history() returns: list.copy() makes a
\* new list that holds references to the same dictionaries.
get_transaction_history(i) ==
    [acct |-> i, list |-> accounts[i].transaction_history]

\* suspend_account that also empties the transaction log.
SuspendedCleared(acc) ==
    [acc EXCEPT !.account_status = "suspended", !.transaction_history = <<>>]

\* suspend_account that flips the status instead of setting it.
SuspendedToggle(acc) ==
    [acc EXCEPT !.account_status = IF @ = "active" THEN "suspended" ELSE "active"]

\* The account of account i after suspend_account and activate_account.
Suspended(acc) == [acc EXCEPT !.account_status = "suspended"]
Activated(acc) == [acc EXCEPT !.account_status = "active"]

\* accounts[i].suspend_account()
SuspendAccount(i) ==
    /\ accounts' = [accounts EXCEPT ![i] = Suspended(@)]
    /\ outcome' = "ok"
    /\ UNCHANGED <<total_accounts, heap, clock, returned,
                   mutations, initial_balance, succeeded>>

\* accounts[i].activate_account()
ActivateAccount(i) ==
    /\ accounts' = [accounts EXCEPT ![i] = Activated(@)]
    /\ outcome' = "ok"
    /\ UNCHANGED <<total_accounts, heap, clock, returned,
                   mutations, initial_balance, succeeded>>

\* What BankAccount.get_total_accounts() returns.
get_total_accounts == total_accounts

\* BankAccount.get_total_accounts()
GetTotalAccounts ==
    /\ outcome' = "ok"
    /\ UNCHANGED <<total_accounts, accounts, heap, clock, returned,
                   mutations, initial_balance, succeeded>>

\* The transaction dictionaries of account i, in the order of its list.
History(i) ==
    [k \in 1..Len(accounts[i].transaction_history) |->
        heap[accounts[i].transaction_history[k]]]

Next ==
    \/ \E n \in AccountNumbers, b \in InitialBalances, nm \in Names :
          Construct(n, b, nm)
    \/ \E i \in Accts, a \in Amounts : Deposit(i, a)
    \/ \E i \in Accts, a \in Amounts : Withdraw(i, a)
    \/ \E i \in Accts : GetBalance(i)
    \/ \E i \in Accts : SuspendAccount(i)
    \/ \E i \in Accts : ActivateAccount(i)
    \/ GetTotalAccounts

Spec == Init /\ [][Next]_vars

(* ------------------ the caller and the list it was given --------------- *)

\* lst = accounts[i].get_transaction_history()
GetTransactionHistory(i) ==
    /\ returned' = get_transaction_history(i)
    /\ outcome' = "ok"
    /\ UNCHANGED <<total_accounts, accounts, heap, clock, mutations,
                   initial_balance, succeeded>>

\* Every method of the class, called in any order.
ApiNext ==
    \/ Next
    \/ \E i \in Accts : GetTransactionHistory(i)

ApiSpec == Init /\ [][ApiNext]_vars

\* The caller changes lst or what it reaches through lst.
CallerStep ==
    /\ returned.acct # 0
    /\ mutations < MaxMutations
    /\ mutations' = mutations + 1
    /\ UNCHANGED <<total_accounts, accounts, clock, outcome,
                   initial_balance, succeeded>>

\* lst.append(x); reference 0 is a dictionary of the caller's own making.
CallerAppend(r) ==
    /\ CallerStep
    /\ returned' = [returned EXCEPT !.list = Append(@, r)]
    /\ UNCHANGED heap

\* del lst[k]
CallerRemove(k) ==
    /\ CallerStep
    /\ k \in 1..Len(returned.list)
    /\ returned' = [returned EXCEPT !.list =
            [j \in 1..(Len(@) - 1) |-> IF j < k THEN @[j] ELSE @[j + 1]]]
    /\ UNCHANGED heap

\* lst[k][field] = value
CallerSetField(k, field, value) ==
    /\ CallerStep
    /\ k \in 1..Len(returned.list)
    /\ returned.list[k] # 0
    /\ heap' = [heap EXCEPT ![returned.list[k]][field] = value]
    /\ UNCHANGED returned

\* A caller that opens accounts, moves money, reads the log and changes
\* what it was given.
CallerNext ==
    \/ \E n \in AccountNumbers, b \in InitialBalances, nm \in Names :
          Construct(n, b, nm)
    \/ \E i \in Accts, a \in Amounts : Deposit(i, a)
    \/ \E i \in Accts, a \in Amounts : Withdraw(i, a)
    \/ \E i \in Accts : GetTransactionHistory(i)
    \/ CallerAppend(0)
    \/ \E k \in 1..MaxObjects : CallerRemove(k)
    \/ \E k \in 1..MaxObjects : CallerSetField(k, "amount", Zero)

CallerSpec == Init /\ [][CallerNext]_vars

(* ------------------------------ properties ---------------------------- *)

\* x > y and x >= y
FGt(x, y) == FLt(y, x)
FGe(x, y) == FLe(y, x)

\* A step leaves the balance and the transaction log of account i alone.
SameBalanceAndHistory(i) ==
    /\ accounts'[i].balance = accounts[i].balance
    /\ History(i)' = History(i)

\* A step adds one transaction of the given type at the end of the log of
\* account i, with the new balance as its balance_after.
OneAppended(i, transaction_type) ==
    LET before == History(i)
        after == History(i)'
    IN  /\ Len(after) = Len(before) + 1
        /\ SubSeq(after, 1, Len(before)) = before
        /\ after[Len(after)].type = transaction_type
        /\ after[Len(after)].balance_after = accounts'[i].balance

\* The last transaction in the log of account i.
LastOf(i) == History(i)[Len(History(i))]

\* C1: the balance of every account is >= 0 in every reachable state.
C1_BalanceNonNegative == \A i \in Accts : FGe(accounts[i].balance, Zero)

\* C2: a deposit or withdrawal on a suspended account, whatever the amount,
\* reports AccountSuspended and leaves balance and history unchanged.
C2_SuspendedRejected ==
    [][\A i \in Accts, a \in Amounts :
          (accounts[i].account_status = "suspended"
              /\ (Deposit(i, a) \/ Withdraw(i, a)))
          => (outcome' = "AccountSuspended" /\ SameBalanceAndHistory(i))]_vars

\* A suspended account with money and a transaction in its log has just
\* refused a call.
C2_Witness ==
    /\ outcome = "AccountSuspended"
    /\ \E i \in Accts :
          /\ accounts[i].account_status = "suspended"
          /\ Len(History(i)) > 0
          /\ FGt(accounts[i].balance, Zero)

\* C3: a deposit of amount a that returns leaves the balance at the old
\* balance plus a (the sum of the two floats) and appends exactly one
\* transaction: a deposit of amount a with the new balance as balance_after.
C3_DepositEffect ==
    [][\A i \in Accts, a \in Amounts :
          (Deposit(i, a) /\ outcome' = "ok")
          => /\ accounts'[i].balance = FAdd(accounts[i].balance, a)
             /\ OneAppended(i, "deposit")
             /\ History(i)'[Len(History(i)')].amount = a]_vars

\* A deposit of 1 has just taken an account from 3 to 4.
C3_Witness ==
    /\ outcome = "ok"
    /\ \E i \in Accts :
          /\ Len(History(i)) = 1
          /\ initial_balance[i] = Fin(3)
          /\ LastOf(i).type = "deposit"
          /\ LastOf(i).amount = Fin(1)
          /\ accounts[i].balance = Fin(4)

\* C4: a withdrawal of amount a <= balance that returns leaves the balance
\* at the old balance minus a and appends exactly one transaction: a
\* withdrawal with the new balance as balance_after.
C4_WithdrawEffect ==
    [][\A i \in Accts, a \in Amounts :
          (Withdraw(i, a) /\ outcome' = "ok" /\ FLe(a, accounts[i].balance))
          => /\ accounts'[i].balance = FSub(accounts[i].balance, a)
             /\ OneAppended(i, "withdraw")]_vars

\* A withdrawal of 1 has just taken an account from 3 to 2.
C4_Witness ==
    /\ outcome = "ok"
    /\ \E i \in Accts :
          /\ Len(History(i)) = 1
          /\ initial_balance[i] = Fin(3)
          /\ LastOf(i).type = "withdraw"
          /\ LastOf(i).amount = Fin(1)
          /\ accounts[i].balance = Fin(2)

\* C5 as stated: a deposit or withdrawal with amount <= 0 reports
\* InvalidAmount and leaves balance and history unchanged.
C5_AsStated ==
    [][\A i \in Accts, a \in Amounts :
          (FLe(a, Zero) /\ (Deposit(i, a) \/ Withdraw(i, a)))
          => (outcome' = "InvalidAmount" /\ SameBalanceAndHistory(i))]_vars

\* C5 as amended: a deposit or withdrawal with amount <= 0 leaves balance
\* and history unchanged, and reports InvalidAmount when the account is
\* active (AccountSuspended when it is suspended).
C5_InvalidAmount ==
    [][\A i \in Accts, a \in Amounts :
          (FLe(a, Zero) /\ (Deposit(i, a) \/ Withdraw(i, a)))
          => /\ SameBalanceAndHistory(i)
             /\ outcome' = IF accounts[i].account_status = "active"
                           THEN "InvalidAmount"
                           ELSE "AccountSuspended"]_vars

\* The only account there is, active and with money, has just refused an
\* amount.
C5_Witness ==
    /\ outcome = "InvalidAmount"
    /\ Len(accounts) = 1
    /\ accounts[1].account_status = "active"
    /\ FGt(accounts[1].balance, Zero)
    /\ Len(History(1)) > 0

\* C6 as stated: a withdrawal with amount > balance reports
\* InsufficientFunds and leaves balance and history unchanged.
C6_AsStated ==
    [][\A i \in Accts, a \in Amounts :
          (FGt(a, accounts[i].balance) /\ Withdraw(i, a))
          => (outcome' = "InsufficientFunds" /\ SameBalanceAndHistory(i))]_vars

\* C6 as amended: a withdrawal with amount > balance leaves balance and
\* history unchanged, and reports InsufficientFunds when the account is
\* active and amount > 0 (AccountSuspended when it is suspended,
\* InvalidAmount when it is active and amount <= 0).
C6_InsufficientFunds ==
    [][\A i \in Accts, a \in Amounts :
          (FGt(a, accounts[i].balance) /\ Withdraw(i, a))
          => /\ SameBalanceAndHistory(i)
             /\ outcome' = IF accounts[i].account_status # "active"
                           THEN "AccountSuspended"
                           ELSE IF FLe(a, Zero) THEN "InvalidAmount"
                           ELSE "InsufficientFunds"]_vars

\* The only account there is, active and with a balance of 0 after a
\* withdrawal of all it had, has just refused a withdrawal for lack of funds.
C6_Witness ==
    /\ outcome = "InsufficientFunds"
    /\ Len(accounts) = 1
    /\ accounts[1].account_status = "active"
    /\ accounts[1].balance = Zero
    /\ Len(History(1)) = 1

\* C7: withdraw checks status, then amount, then funds, and the first
\* check that fails decides the error: AccountSuspended on a suspended
\* account whatever the amount, InvalidAmount on an active account with
\* amount <= 0 whatever the balance, InsufficientFunds only on an active
\* account with amount > 0 and balance < amount.  deposit reports
\* AccountSuspended before InvalidAmount.
C7_CheckOrder ==
    [][\A i \in Accts, a \in Amounts :
          /\ Withdraw(i, a) =>
                /\ accounts[i].account_status = "suspended"
                      => outcome' = "AccountSuspended"
                /\ (accounts[i].account_status = "active" /\ FLe(a, Zero))
                      => outcome' = "InvalidAmount"
                /\ outcome' = "InsufficientFunds"
                      => /\ accounts[i].account_status = "active"
                         /\ FGt(a, Zero)
                         /\ FLt(accounts[i].balance, a)
          /\ Deposit(i, a) =>
                /\ accounts[i].account_status = "suspended"
                      => outcome' = "AccountSuspended"
                /\ (accounts[i].account_status = "active" /\ FLe(a, Zero))
                      => outcome' = "InvalidAmount"]_vars

\* The only account there is, active and with a negative balance, has just
\* refused an amount.
C7_Witness ==
    /\ outcome = "InvalidAmount"
    /\ Len(accounts) = 1
    /\ accounts[1].account_status = "active"
    /\ FLt(accounts[1].balance, Zero)

\* C8: nothing the caller does to the list get_transaction_history gave
\* it, or to a transaction reached through the list, changes the log of
\* any account.
C8_IndependentCopy ==
    [][mutations' # mutations
          => \A i \in Accts : History(i)' = History(i)]_vars

C10_HistoryLength ==
    \A i \in Accts : Len(accounts[i].transaction_history) = succeeded[i]

\* An account with two transactions, suspended, has just refused a call.
C10_Witness ==
    /\ outcome = "AccountSuspended"
    /\ \E i \in Accts :
          /\ succeeded[i] = 2
          /\ Len(accounts[i].transaction_history) = 2
          /\ accounts[i].account_status = "suspended"

\* The balance before transaction k of account i: the balance_after of
\* the transaction before it, or the initial balance.
BalanceBefore(i, k) ==
    IF k = 1 THEN initial_balance[i] ELSE History(i)[k - 1].balance_after

\* C11: the balance_after of every transaction in a history is the
\* balance_after of the one before it (the initial balance for the first)
\* plus the amount for a deposit, minus the amount for a withdrawal (the
\* sum and the difference of the two floats).
C11_BalanceChain ==
    \A i \in Accts : \A k \in 1..Len(History(i)) :
        History(i)[k].balance_after =
            IF History(i)[k].type = "deposit"
            THEN FAdd(BalanceBefore(i, k), History(i)[k].amount)
            ELSE FSub(BalanceBefore(i, k), History(i)[k].amount)

\* An account that started with 3 has a deposit and then a withdrawal in
\* its history.
C11_Witness ==
    \E i \in Accts :
        /\ initial_balance[i] = Fin(3)
        /\ Len(History(i)) = 2
        /\ History(i)[1].type = "deposit"
        /\ History(i)[1].balance_after = Fin(4)
        /\ History(i)[2].type = "withdraw"
        /\ History(i)[2].balance_after = Fin(3)

\* C12: the status of an account is "active" or "suspended", it is
\* "active" right after construction, and it changes only in a step of
\* suspend_account or activate_account: deposit and withdraw, returning or
\* raising, leave it as it was.
C12_Status ==
    [][/\ \A i \in 1..Len(accounts') :
             /\ accounts'[i].account_status \in {"active", "suspended"}
             /\ i > Len(accounts) => accounts'[i].account_status = "active"
       /\ \A i \in Accts :
             accounts'[i].account_status # accounts[i].account_status
                => (SuspendAccount(i) \/ ActivateAccount(i))
       /\ \A i \in Accts, a \in Amounts :
             (Deposit(i, a) \/ Withdraw(i, a))
                => accounts'[i].account_status = accounts[i].account_status]_vars

\* A withdrawal returned on an account that is still active, while a second
\* account, constructed active, has been suspended.
C12_Witness ==
    /\ Len(accounts) = 2
    /\ outcome = "ok"
    /\ accounts[1].account_status = "active"
    /\ Len(History(1)) = 1
    /\ LastOf(1).type = "withdraw"
    /\ accounts[2].account_status = "suspended"

\* C13: suspend_account and activate_account never fail and are idempotent.
\* Each is enabled on every account of every reachable state, every step of
\* it returns, the account it leaves is "suspended" (resp. "active")
\* whatever the status before, and calling it once more on the account it
\* left gives that same account back.
C13_Idempotent ==
    [][\A i \in Accts :
          /\ ENABLED SuspendAccount(i)
          /\ ENABLED ActivateAccount(i)
          /\ SuspendAccount(i) =>
                /\ outcome' = "ok"
                /\ accounts' = [accounts EXCEPT ![i] = Suspended(accounts[i])]
                /\ accounts'[i].account_status = "suspended"
                /\ Suspended(accounts'[i]) = accounts'[i]
                /\ Suspended(Suspended(accounts[i])) = Suspended(accounts[i])
          /\ ActivateAccount(i) =>
                /\ outcome' = "ok"
                /\ accounts' = [accounts EXCEPT ![i] = Activated(accounts[i])]
                /\ accounts'[i].account_status = "active"
                /\ Activated(accounts'[i]) = accounts'[i]
                /\ Activated(Activated(accounts[i])) = Activated(accounts[i])]_vars

\* suspend_account has returned on an account that had a recorded
\* transaction, which only an active account gets; a second account is
\* active.
C13_Witness ==
    /\ Len(accounts) = 2
    /\ accounts[1].account_status = "suspended"
    /\ Len(History(1)) = 1
    /\ accounts[2].account_status = "active"
    /\ outcome = "ok"

\* s is a prefix of t.
IsPrefix(s, t) == Len(s) <= Len(t) /\ SubSeq(t, 1, Len(s)) = s

\* C14: the transaction log is append-only.  In every step of every method,
\* the log of each account before the step, read as the dictionaries it
\* holds, is a prefix of its log after the step, and the log grows by at
\* most one entry: nothing is removed, reordered or modified, and a new
\* entry is added at the end.
C14_AppendOnly ==
    [][\A i \in Accts :
          /\ IsPrefix(History(i), History(i)')
          /\ IsPrefix(accounts[i].transaction_history,
                      accounts'[i].transaction_history)
          /\ Len(History(i)') <= Len(History(i)) + 1]_vars

\* A second transaction was appended to a log that had been handed out by
\* get_transaction_history when it held one.
C14_Witness ==
    \E i \in Accts :
        /\ returned.acct = i
        /\ Len(returned.list) = 1
        /\ Len(History(i)) = 2
        /\ History(i)[1].timestamp < History(i)[2].timestamp

\* C15: every transaction recorded in the log of any account is a deposit
\* or a withdrawal and has an amount > 0.
C15_RecordedPositive ==
    \A i \in Accts : \A k \in 1..Len(History(i)) :
        /\ History(i)[k].type \in {"deposit", "withdraw"}
        /\ FGt(History(i)[k].amount, Zero)

\* C16: deposit(a) returns exactly when the account is active and a > 0;
\* withdraw(a) returns exactly when the account is active, a > 0 and
\* balance >= a; and a withdrawal of the whole of a positive balance
\* returns and leaves the balance at 0.
C16_SuccessIffPreconditions ==
    [][\A i \in Accts, a \in Amounts :
          /\ Deposit(i, a) =>
                (outcome' = "ok"
                    <=> (accounts[i].account_status = "active" /\ FGt(a, Zero)))
          /\ Withdraw(i, a) =>
                (outcome' = "ok"
                    <=> (/\ accounts[i].account_status = "active"
                         /\ FGt(a, Zero)
                         /\ FGe(accounts[i].balance, a)))
          /\ (/\ Withdraw(i, a)
              /\ accounts[i].account_status = "active"
              /\ a = accounts[i].balance
              /\ FGt(a, Zero))
             => (outcome' = "ok" /\ accounts'[i].balance = Zero)]_vars

\* C17: an account constructed with a balance >= 0 has a balance >= 0 in
\* every state that deposit, withdraw, suspend_account and activate_account
\* lead to; the constructor stores the balance it is given as it is.
C17_NonNegativeKept ==
    \A i \in Accts :
        /\ Len(History(i)) = 0 => accounts[i].balance = initial_balance[i]
        /\ FGe(initial_balance[i], Zero) => FGe(accounts[i].balance, Zero)

\* x + y and x - y of the extended reals: as FAdd and FSub, not rounded.
XAdd(x, y) ==
    IF x.kind = "nan" \/ y.kind = "nan" THEN NaN
    ELSE IF x.kind = "inf" /\ y.kind = "inf"
         THEN (IF x.v = y.v THEN x ELSE NaN)
    ELSE IF x.kind = "inf" THEN x
    ELSE IF y.kind = "inf" THEN y
    ELSE Fin(x.v + y.v)
XSub(x, y) == XAdd(x, FNeg(y))

\* The initial balance of account i plus the amounts of the deposits minus
\* the amounts of the withdrawals among the first k entries of its log.
RECURSIVE Conserved(_, _)
Conserved(i, k) ==
    IF k = 0 THEN initial_balance[i]
    ELSE IF History(i)[k].type = "deposit"
         THEN XAdd(Conserved(i, k - 1), History(i)[k].amount)
         ELSE XSub(Conserved(i, k - 1), History(i)[k].amount)

\* C18: the balance of every account is its initial balance plus the sum
\* of the amounts of the deposits in its log minus the sum of the amounts of
\* the withdrawals, and the balance_after of the last entry of a log that
\* is not empty is the balance.
C18_Conservation ==
    \A i \in Accts :
        /\ accounts[i].balance = Conserved(i, Len(History(i)))
        /\ Len(History(i)) > 0 => LastOf(i).balance_after = accounts[i].balance

\* C19: suspend_account and activate_account change nothing but the
\* status: the balance, the log and its dictionaries, the account number,
\* the owner's name, the creation time and the counter of accounts stay as
\* they were.  get_balance and get_transaction_history leave the counter,
\* every account and every dictionary as they were.
C19_Frame ==
    [][\A i \in Accts :
          /\ (SuspendAccount(i) \/ ActivateAccount(i)) =>
                /\ accounts'[i].balance = accounts[i].balance
                /\ accounts'[i].transaction_history =
                      accounts[i].transaction_history
                /\ History(i)' = History(i)
                /\ accounts'[i].account_number = accounts[i].account_number
                /\ accounts'[i].name = accounts[i].name
                /\ accounts'[i].created_at = accounts[i].created_at
                /\ total_accounts' = total_accounts
          /\ (GetBalance(i) \/ GetTransactionHistory(i)) =>
                UNCHANGED <<total_accounts, accounts, heap, clock>>]_vars

\* An account taken to 4 by a deposit of 1 has been suspended and its log
\* has been read: it still has the balance and the one transaction.
C19_Witness ==
    \E i \in Accts :
        /\ accounts[i].account_status = "suspended"
        /\ accounts[i].balance = Fin(4)
        /\ returned.acct = i
        /\ Len(returned.list) = 1
        /\ History(i)[1].amount = Fin(1)

\* The dictionaries the log of an account refers to.
Refs(acc) == {acc.transaction_history[k] : k \in 1..Len(acc.transaction_history)}

\* C20: accounts are isolated.  A deposit, withdrawal, suspend_account or
\* activate_account on one account, returning or raising, leaves every
\* other account (balance, status, log) as it was; constructing an account
\* leaves every existing account as it was; and no transaction dictionary
\* is in the log of two accounts, so that the counter of accounts is all
\* that accounts share.
C20_Isolation ==
    [][/\ \A j \in Accts, a \in Amounts :
             (Deposit(j, a) \/ Withdraw(j, a)
                 \/ SuspendAccount(j) \/ ActivateAccount(j))
             => \A i \in Accts \ {j} :
                   accounts'[i] = accounts[i] /\ History(i)' = History(i)
       /\ Len(accounts') > Len(accounts)
             => \A i \in Accts :
                   accounts'[i] = accounts[i] /\ History(i)' = History(i)
       /\ \A i, j \in 1..Len(accounts') :
             i # j => Refs(accounts'[i]) \cap Refs(accounts'[j]) = {}]_vars

\* Of two accounts, the first has taken a deposit and is active, the second
\* has been suspended and has its initial balance and an empty log.
C20_Witness ==
    /\ total_accounts = 2
    /\ Len(accounts) = 2
    /\ Len(History(1)) = 1
    /\ LastOf(1).type = "deposit"
    /\ accounts[1].balance # initial_balance[1]
    /\ accounts[1].account_status = "active"
    /\ accounts[2].account_status = "suspended"
    /\ accounts[2].balance = initial_balance[2]
    /\ Len(History(2)) = 0

=============================================================================
